---- MODULE Spec2Model ----
\* A model of the workflow graph executor of multiplai/graph.py: the graph
\* builder (StateGraph), the compiled graph and its run loop
\* (_CompiledGraph.ainvoke), the in-memory checkpoint store (MemorySaver) and
\* the four nodes of the built pipeline, and of the four node callables of
\* the multiplai.nodes package with the files and capabilities they use.
\* Python objects live on a heap of addressed objects, so that a copy and an
\* alias are different things.
EXTENDS Integers, Sequences, FiniteSets, TLC

\* ---------------------------------------------------------------- bounds

\* Builder calls (add_node, set_entry_point, add_edge) explored per behaviour.
MaxCalls == 4
\* Node invocations of one run (the executor itself has no step limit).
MaxSteps == 4
\* get calls of an outside observer, and mutations by the caller.
MaxGets == 2
MaxMutations == 1

\* ---------------------------------------------------------------- values

\* graph.py:20
END == "__end__"

\* Python values held in dicts and lists: a string, True, None, or a
\* reference to a mutable object (dict or list) on the heap.
Str(s) == [t |-> "str", s |-> s, r |-> 0]
Ref(a) == [t |-> "ref", s |-> "", r |-> a]
None == [t |-> "none", s |-> "", r |-> 0]
PyTrue == [t |-> "bool", s |-> "True", r |-> 0]
PyInt(s) == [t |-> "int", s |-> s, r |-> 0]

NoKeys == [k \in {} |-> None]
Dict(d) == [kind |-> "dict", d |-> d, l |-> <<>>]
List(l) == [kind |-> "list", d |-> NoKeys, l |-> l]

\* Python truthiness of a value (None and "" are falsy).
Truthy(v) == v.t # "none" /\ ~(v.t = "str" /\ v.s = "")

\* ------------------------------------------------------------------ heap

\* The addresses an object refers to directly.
Refs(o) ==
    IF o.kind = "dict"
    THEN {o.d[k].r : k \in {j \in DOMAIN o.d : o.d[j].t = "ref"}}
    ELSE {o.l[i].r : i \in {j \in DOMAIN o.l : o.l[j].t = "ref"}}

RECURSIVE ReachFrom(_, _, _)
ReachFrom(h, frontier, seen) ==
    IF frontier = {} THEN seen
    ELSE LET done == seen \cup frontier
             nxt == UNION {Refs(h[x]) : x \in frontier} \ done
         IN ReachFrom(h, nxt, done)

\* Every object reachable from address a (a included).
Reach(h, a) == ReachFrom(h, {a}, {})

Alloc(h, o) == [heap |-> Append(h, o), addr |-> Len(h) + 1]

\* copy.copy / dict(x): a new top-level object whose values are the same
\* values, so nested objects are shared with the original.
shallowcopy(h, a) == Alloc(h, h[a])

\* copy.deepcopy: a new object for every object reachable from a, references
\* between them remapped (the memo keeps sharing inside the copy).
deepcopy(h, a) ==
    LET R == Reach(h, a)
        n == Len(h)
        rank(x) == Cardinality({y \in R : y <= x})
        nth(i) == CHOOSE x \in R : rank(x) = i
        mv(v) == IF v.t = "ref" THEN Ref(n + rank(v.r)) ELSE v
        mo(o) == IF o.kind = "dict"
                 THEN Dict([k \in DOMAIN o.d |-> mv(o.d[k])])
                 ELSE List([i \in DOMAIN o.l |-> mv(o.l[i])])
    IN [heap |-> h \o [i \in 1..Cardinality(R) |-> mo(h[nth(i)])],
        addr |-> n + rank(a)]

\* The content of a value, references followed: what == compares in Python.
RECURSIVE Content(_, _)
Content(h, v) ==
    IF v.t # "ref" THEN [t |-> v.t, s |-> v.s, d |-> NoKeys, l |-> <<>>]
    ELSE LET o == h[v.r] IN
         IF o.kind = "dict"
         THEN [t |-> "dict", s |-> "",
               d |-> [k \in DOMAIN o.d |-> Content(h, o.d[k])], l |-> <<>>]
         ELSE [t |-> "list", s |-> "", d |-> NoKeys,
               l |-> [i \in DOMAIN o.l |-> Content(h, o.l[i])]]

\* Contents written out, for stating expected results.
CStr(s) == [t |-> "str", s |-> s, d |-> NoKeys, l |-> <<>>]
CTrue == [t |-> "bool", s |-> "True", d |-> NoKeys, l |-> <<>>]
CDict(d) == [t |-> "dict", s |-> "", d |-> d, l |-> <<>>]
CList(l) == [t |-> "list", s |-> "", d |-> NoKeys, l |-> l]
CNone == [t |-> "none", s |-> "", d |-> NoKeys, l |-> <<>>]

\* dict[key] = value, in place.
SetItem(h, a, key, v) ==
    [h EXCEPT ![a] = Dict((key :> v) @@ h[a].d)]

\* list.append(value), in place.
ListAppend(h, a, v) ==
    [h EXCEPT ![a] = List(Append(h[a].l, v))]

\* dict.get(key) with None for an absent key.
DictGet(h, a, key) ==
    IF key \in DOMAIN h[a].d THEN h[a].d[key] ELSE None

\* ----------------------------------------------------------------- state

\* Node names and node functions a caller registers; thread ids in use.
Names == {"load_context", "plan_issue"}
NodeFns ==
    {"load_context", "plan_issue", "execute_issue", "create_pr",
     "returns_none", "returns_empty"}
\* A caller's nodes that leave the state alone and return None, or {}.
QuietFns == {"returns_none", "returns_empty"}
ThreadIds == {"default", "t1", "t2"}
RunIds == {"r1", "r2"}
\* The run of the behaviours that have a single run.
Solo == {"r1"}

VARIABLES
    heap,           \* the Python heap: a sequence of dict and list objects
    builder,        \* the StateGraph: _nodes, _edges (addresses), _entry_point
    graph,          \* the _CompiledGraph (made = FALSE: none yet)
    compile_result, \* "none", "raised" (ValueError) or "ok": the last compile
    store,          \* MemorySaver._store: thread id -> address (0: absent)
    pc,             \* per run: idle, loop, await, returned, raised
    current,        \* per run: ainvoke's current
    thread_id,      \* per run: ainvoke's thread_id
    run_config,     \* per run: the config ainvoke was called with
    working_state,  \* per run: address of ainvoke's working_state
    caller_state,   \* per run: address of the caller's initial state object
    visited,        \* per run: the node names invoked so far, in order
    steps,          \* per run: the steps completed (merged and checkpointed)
    putlog,         \* every put so far, in order: run, thread id, content
    snapshot,       \* what an observer's last get returned (0: None)
    gets,           \* get calls of the observer so far
    mutations,      \* the caller's mutations so far: target and kind
    node,           \* per run: the node function being awaited
    calls,          \* builder calls made so far
    entry_calls,    \* set_entry_point calls made so far
    getlog,         \* every get so far, in order: what it returned, and when
    pending,        \* per run: where the awaited node of the nodes package is
    reads,          \* the files opened so far, in order
    plan_calls,     \* calls of the plan capability (structured_llm.ainvoke)
    diff_calls      \* calls of the diff capability (llm.ainvoke)

vars == <<heap, builder, graph, compile_result, store, pc, current, thread_id, run_config,
          working_state, caller_state, visited, steps, putlog, node, calls,
          entry_calls, snapshot, gets, mutations, getlog, pending, reads,
          plan_calls, diff_calls>>

buildvars == <<builder, graph, compile_result, calls, entry_calls>>
runvars == <<pc, current, thread_id, run_config, working_state, caller_state, visited,
             steps, putlog, node>>
obsvars == <<snapshot, gets, mutations, getlog>>
effvars == <<pending, reads, plan_calls, diff_calls>>

\* The files a state's target_files name, and what opening one can do.
Files == {"a.py", "b.py"}
FileOutcomes == {"ok", "missing", "unreadable"}
AllOk == [f \in Files |-> "ok"]

\* The record of a run's latest call of a node of the nodes package: how far
\* the coroutine got (phase), the message of its failure or exception, the
\* content of the state it was given, the file system it met, the sizes of
\* the effect logs when it was called, the exception the awaited capability
\* raised (cause), and the content of what the node returned.
NoPending ==
    [phase |-> "none", error |-> "", input |-> CNone, fs |-> AllOk,
     reads0 |-> 0, plans0 |-> 0, diffs0 |-> 0, cause |-> "",
     result |-> CNone]

NoGraph == [made |-> FALSE, nodes |-> 0, edges |-> 0, entry_point |-> ""]

\* StateGraph.__init__ and MemorySaver.__init__: empty maps, no entry point,
\* an empty store; no run has started.
Init ==
    /\ heap = <<Dict(NoKeys), Dict(NoKeys)>>
    /\ builder = [nodes |-> 1, edges |-> 2, entry_point |-> None, live |-> TRUE]
    /\ graph = NoGraph
    /\ compile_result = "none"
    /\ store = [t \in ThreadIds |-> 0]
    /\ pc = [r \in RunIds |-> "idle"]
    /\ current = [r \in RunIds |-> ""]
    /\ thread_id = [r \in RunIds |-> ""]
    /\ run_config = [r \in RunIds |-> [given |-> FALSE, nested |-> None, top |-> None]]
    /\ working_state = [r \in RunIds |-> 0]
    /\ caller_state = [r \in RunIds |-> 0]
    /\ visited = [r \in RunIds |-> <<>>]
    /\ steps = [r \in RunIds |-> 0]
    /\ putlog = <<>>
    /\ snapshot = [tid |-> "", addr |-> 0]
    /\ gets = 0
    /\ mutations = <<>>
    /\ node = [r \in RunIds |-> ""]
    /\ calls = 0
    /\ entry_calls = 0
    /\ getlog = <<>>
    /\ pending = [r \in RunIds |-> NoPending]
    /\ reads = <<>>
    /\ plan_calls = 0
    /\ diff_calls = 0

\* ----------------------------------------------------------- MemorySaver

\* A get that hands out the stored object itself.
get_aliased(h, st, tid) == [heap |-> h, addr |-> st[tid]]

\* MemorySaver.get: a deep copy of the stored value, or None (address 0).
get(h, st, tid) ==
    IF st[tid] # 0 THEN deepcopy(h, st[tid]) ELSE [heap |-> h, addr |-> 0]

\* A put that stores a copy.copy of the state: a new top-level dict over the
\* same nested objects.
put_shallow(h, st, tid, a) ==
    LET c == shallowcopy(h, a)
    IN [heap |-> c.heap, store |-> [st EXCEPT ![tid] = c.addr]]

\* A put that stores the object it is given, not a copy.
put_aliased(h, st, tid, a) ==
    [heap |-> h, store |-> [st EXCEPT ![tid] = a]]

\* A put that also overwrites the snapshot of every other thread id in use.
put_broadcast(h, st, tid, a) ==
    LET c == deepcopy(h, a)
    IN [heap |-> c.heap,
        store |-> [t \in DOMAIN st |->
                     IF t = tid \/ st[t] # 0 THEN c.addr ELSE st[t]]]

\* A put that updates the stored dict in place (dict.update) when the thread
\* id already has one.
put_merging(h, st, tid, a) ==
    LET c == deepcopy(h, a)
    IN IF st[tid] = 0
       THEN [heap |-> c.heap, store |-> [st EXCEPT ![tid] = c.addr]]
       ELSE [heap |-> [c.heap EXCEPT ![st[tid]] =
                          Dict([k \in DOMAIN c.heap[st[tid]].d
                                       \cup DOMAIN c.heap[c.addr].d |->
                                  IF k \in DOMAIN c.heap[c.addr].d
                                  THEN c.heap[c.addr].d[k]
                                  ELSE c.heap[st[tid]].d[k]])],
             store |-> st]

\* A put that keeps the snapshot a thread id already has (dict.setdefault).
put_keep_first(h, st, tid, a) ==
    LET c == deepcopy(h, a)
    IN [heap |-> c.heap,
        store |-> IF st[tid] = 0 THEN [st EXCEPT ![tid] = c.addr] ELSE st]

\* MemorySaver.put: stores a deep copy under the thread id.
put(h, st, tid, a) ==
    LET c == deepcopy(h, a)
    IN [heap |-> c.heap, store |-> [st EXCEPT ![tid] = c.addr]]

\* What the store holds under tid right after the put that gave p.
Logged(r, tid, p) ==
    [run |-> r, tid |-> tid, content |-> Content(p.heap, Ref(p.store[tid]))]

\* ------------------------------------------------------------ StateGraph

\* An add_node that keeps the first function registered under a name
\* (dict.setdefault).
add_node_keep_first(h, b, name, fn) ==
    IF name \in DOMAIN h[b.nodes].d THEN h
    ELSE SetItem(h, b.nodes, name, Str(fn))

add_node(h, b, name, fn) == SetItem(h, b.nodes, name, Str(fn))

set_entry_point(b, name) == [b EXCEPT !.entry_point = Str(name)]

add_edge(h, b, source, dest) == SetItem(h, b.edges, source, Str(dest))

\* A compile that does not check the entry point.
compile_unchecked(h, b) ==
    LET n == shallowcopy(h, b.nodes)
        e == shallowcopy(n.heap, b.edges)
    IN [raised |-> FALSE, heap |-> e.heap,
        graph |-> [made |-> TRUE, nodes |-> n.addr, edges |-> e.addr,
                   entry_point |-> b.entry_point.s]]

\* A compile that hands the builder's own maps to the compiled graph.
compile_aliased(h, b) ==
    IF ~Truthy(b.entry_point)
    THEN [raised |-> TRUE, heap |-> h, graph |-> NoGraph]
    ELSE [raised |-> FALSE, heap |-> h,
          graph |-> [made |-> TRUE, nodes |-> b.nodes, edges |-> b.edges,
                     entry_point |-> b.entry_point.s]]

\* StateGraph.compile: ValueError when the entry point is falsy (None or "");
\* otherwise a _CompiledGraph over dict(...) copies of the two maps.
compile(h, b) ==
    IF ~Truthy(b.entry_point)
    THEN [raised |-> TRUE, heap |-> h, graph |-> NoGraph]
    ELSE LET n == shallowcopy(h, b.nodes)
             e == shallowcopy(n.heap, b.edges)
         IN [raised |-> FALSE, heap |-> e.heap,
             graph |-> [made |-> TRUE, nodes |-> n.addr, edges |-> e.addr,
                        entry_point |-> b.entry_point.s]]

AddNode(name, fn) ==
    /\ builder.live /\ calls < MaxCalls
    /\ heap' = add_node(heap, builder, name, fn)
    /\ calls' = calls + 1
    /\ UNCHANGED <<builder, graph, compile_result, entry_calls, store>>
    /\ UNCHANGED runvars
    /\ UNCHANGED obsvars
    /\ UNCHANGED effvars

SetEntryPoint(name) ==
    /\ builder.live /\ calls < MaxCalls
    /\ builder' = set_entry_point(builder, name)
    /\ calls' = calls + 1
    /\ entry_calls' = entry_calls + 1
    /\ UNCHANGED <<heap, graph, compile_result, store>>
    /\ UNCHANGED runvars
    /\ UNCHANGED obsvars
    /\ UNCHANGED effvars

AddEdge(source, dest) ==
    /\ builder.live /\ calls < MaxCalls
    /\ heap' = add_edge(heap, builder, source, dest)
    /\ calls' = calls + 1
    /\ UNCHANGED <<builder, graph, compile_result, entry_calls, store>>
    /\ UNCHANGED runvars
    /\ UNCHANGED obsvars
    /\ UNCHANGED effvars

Compile ==
    /\ builder.live /\ ~graph.made
    /\ LET c == compile(heap, builder)
       IN /\ heap' = c.heap
          /\ graph' = c.graph
          /\ compile_result' = IF c.raised THEN "raised" ELSE "ok"
    /\ UNCHANGED <<builder, calls, entry_calls, store>>
    /\ UNCHANGED runvars
    /\ UNCHANGED obsvars
    /\ UNCHANGED effvars

\* A build_graph whose plan_issue edge skips execute_issue.
build_graph_miswired(h, b) ==
    LET h1 == add_node(h, b, "load_context", "load_context")
        h2 == add_node(h1, b, "plan_issue", "plan_issue")
        h3 == add_node(h2, b, "execute_issue", "execute_issue")
        h4 == add_node(h3, b, "create_pr", "create_pr")
        b1 == set_entry_point(b, "load_context")
        h5 == add_edge(h4, b1, "load_context", "plan_issue")
        h6 == add_edge(h5, b1, "plan_issue", "create_pr")
        h7 == add_edge(h6, b1, "execute_issue", "create_pr")
        h8 == add_edge(h7, b1, "create_pr", END)
    IN [builder |-> [b1 EXCEPT !.live = FALSE], compiled |-> compile(h8, b1)]

\* build_graph: a fresh StateGraph, the four nodes, the entry point, the four
\* edges, compiled with a fresh MemorySaver.
build_graph(h, b) ==
    LET h1 == add_node(h, b, "load_context", "load_context")
        h2 == add_node(h1, b, "plan_issue", "plan_issue")
        h3 == add_node(h2, b, "execute_issue", "execute_issue")
        h4 == add_node(h3, b, "create_pr", "create_pr")
        b1 == set_entry_point(b, "load_context")
        h5 == add_edge(h4, b1, "load_context", "plan_issue")
        h6 == add_edge(h5, b1, "plan_issue", "execute_issue")
        h7 == add_edge(h6, b1, "execute_issue", "create_pr")
        h8 == add_edge(h7, b1, "create_pr", END)
    IN [builder |-> [b1 EXCEPT !.live = FALSE], compiled |-> compile(h8, b1)]

\* The module-level graph = build_graph(); its builder is a local of
\* build_graph, out of the caller's reach afterwards.
BuildGraph ==
    /\ builder.live /\ calls = 0 /\ entry_calls = 0
    /\ compile_result = "none" /\ ~graph.made
    /\ LET g == build_graph(heap, builder)
       IN /\ builder' = g.builder
          /\ heap' = g.compiled.heap
          /\ graph' = g.compiled.graph
          /\ compile_result' = IF g.compiled.raised THEN "raised" ELSE "ok"
    /\ entry_calls' = 1
    /\ UNCHANGED <<calls, store>>
    /\ UNCHANGED runvars
    /\ UNCHANGED obsvars
    /\ UNCHANGED effvars

\* A caller's own graph: load_context then plan_issue, which has no outgoing
\* edge.
short_chain(h, b) ==
    LET h1 == add_node(h, b, "load_context", "load_context")
        h2 == add_node(h1, b, "plan_issue", "plan_issue")
        b1 == set_entry_point(b, "load_context")
        h3 == add_edge(h2, b1, "load_context", "plan_issue")
    IN [builder |-> [b1 EXCEPT !.live = FALSE], compiled |-> compile(h3, b1)]

WireShortChain ==
    /\ builder.live /\ calls = 0 /\ entry_calls = 0
    /\ compile_result = "none" /\ ~graph.made
    /\ LET g == short_chain(heap, builder)
       IN /\ builder' = g.builder
          /\ heap' = g.compiled.heap
          /\ graph' = g.compiled.graph
          /\ compile_result' = IF g.compiled.raised THEN "raised" ELSE "ok"
    /\ entry_calls' = 1
    /\ UNCHANGED <<calls, store>>
    /\ UNCHANGED runvars
    /\ UNCHANGED obsvars
    /\ UNCHANGED effvars

\* A caller's graph over the nodes package: the four exported node
\* callables under their own names, wired as the built pipeline is.
package_graph(h, b) ==
    LET h1 == add_node(h, b, "load_context", "nodes.load_context")
        h2 == add_node(h1, b, "plan_issue", "nodes.plan_issue")
        h3 == add_node(h2, b, "execute_issue", "nodes.execute_issue")
        h4 == add_node(h3, b, "create_pr", "nodes.create_pr")
        b1 == set_entry_point(b, "load_context")
        h5 == add_edge(h4, b1, "load_context", "plan_issue")
        h6 == add_edge(h5, b1, "plan_issue", "execute_issue")
        h7 == add_edge(h6, b1, "execute_issue", "create_pr")
        h8 == add_edge(h7, b1, "create_pr", END)
    IN [builder |-> [b1 EXCEPT !.live = FALSE], compiled |-> compile(h8, b1)]

WirePackage ==
    /\ builder.live /\ calls = 0 /\ entry_calls = 0
    /\ compile_result = "none" /\ ~graph.made
    /\ LET g == package_graph(heap, builder)
       IN /\ builder' = g.builder
          /\ heap' = g.compiled.heap
          /\ graph' = g.compiled.graph
          /\ compile_result' = IF g.compiled.raised THEN "raised" ELSE "ok"
    /\ entry_calls' = 1
    /\ UNCHANGED <<calls, store>>
    /\ UNCHANGED runvars
    /\ UNCHANGED obsvars
    /\ UNCHANGED effvars

\* A caller's graph with nodes that return nothing: noop, load_context,
\* empty, the last without an outgoing edge.
quiet_chain(h, b) ==
    LET h1 == add_node(h, b, "noop", "returns_none")
        h2 == add_node(h1, b, "load_context", "load_context")
        h3 == add_node(h2, b, "empty", "returns_empty")
        b1 == set_entry_point(b, "noop")
        h4 == add_edge(h3, b1, "noop", "load_context")
        h5 == add_edge(h4, b1, "load_context", "empty")
    IN [builder |-> [b1 EXCEPT !.live = FALSE], compiled |-> compile(h5, b1)]

WireQuietChain ==
    /\ builder.live /\ calls = 0 /\ entry_calls = 0
    /\ compile_result = "none" /\ ~graph.made
    /\ LET g == quiet_chain(heap, builder)
       IN /\ builder' = g.builder
          /\ heap' = g.compiled.heap
          /\ graph' = g.compiled.graph
          /\ compile_result' = IF g.compiled.raised THEN "raised" ELSE "ok"
    /\ entry_calls' = 1
    /\ UNCHANGED <<calls, store>>
    /\ UNCHANGED runvars
    /\ UNCHANGED obsvars
    /\ UNCHANGED effvars

\* The absence of an edge in a wiring.
NoEdge == ""

\* A caller's graph over the two nodes load_context and plan_issue: any
\* entry point, and for each node an edge to a node, an edge to END, or no
\* edge.
wired_chain(h, b, entry, d1, d2) ==
    LET h1 == add_node(h, b, "load_context", "load_context")
        h2 == add_node(h1, b, "plan_issue", "plan_issue")
        b1 == set_entry_point(b, entry)
        h3 == IF d1 = NoEdge THEN h2 ELSE add_edge(h2, b1, "load_context", d1)
        h4 == IF d2 = NoEdge THEN h3 ELSE add_edge(h3, b1, "plan_issue", d2)
    IN [builder |-> [b1 EXCEPT !.live = FALSE], compiled |-> compile(h4, b1)]

WireChain(entry, d1, d2) ==
    /\ builder.live /\ calls = 0 /\ entry_calls = 0
    /\ compile_result = "none" /\ ~graph.made
    /\ LET g == wired_chain(heap, builder, entry, d1, d2)
       IN /\ builder' = g.builder
          /\ heap' = g.compiled.heap
          /\ graph' = g.compiled.graph
          /\ compile_result' = IF g.compiled.raised THEN "raised" ELSE "ok"
    /\ entry_calls' = 1
    /\ UNCHANGED <<calls, store>>
    /\ UNCHANGED runvars
    /\ UNCHANGED obsvars
    /\ UNCHANGED effvars

\* ----------------------------------------------------------------- nodes

\* _append_trace: appends the name to state["trace"], in place, creating the
\* list when the key is absent or None.
append_trace(h, a, node_name) ==
    LET trace == DictGet(h, a, "trace")
    IN IF trace = None
       THEN LET n == Alloc(h, List(<<>>))
            IN ListAppend(SetItem(n.heap, a, "trace", Ref(n.addr)), n.addr,
                          Str(node_name))
       ELSE ListAppend(h, trace.r, Str(node_name))

\* What a node leaves in the state it is given before it returns.
NodeBody(fn, h, a) == IF fn \in QuietFns THEN h ELSE append_trace(h, a, fn)

\* The dict literal a node returns (its nested objects are new objects).
load_context(h) ==
    LET c == Alloc(h, Dict([loaded |-> PyTrue]))
    IN [heap |-> c.heap,
        d |-> [status |-> Str("context_loaded"), context |-> Ref(c.addr)]]

plan_issue(h) ==
    LET s == Alloc(h, List(<<Str("execute"), Str("create_pr")>>))
        dd == Alloc(s.heap, List(<<>>))
        tf == Alloc(dd.heap, List(<<>>))
        p == Alloc(tf.heap,
                   Dict([steps |-> Ref(s.addr),
                         definition_of_done |-> Ref(dd.addr),
                         target_files |-> Ref(tf.addr),
                         estimated_complexity |-> Str("low")]))
    IN [heap |-> p.heap,
        d |-> [status |-> Str("planned"), plan |-> Ref(p.addr)]]

execute_issue(h) ==
    LET e == Alloc(h, Dict([ok |-> PyTrue]))
    IN [heap |-> e.heap,
        d |-> [status |-> Str("executed"), execution_result |-> Ref(e.addr)]]

create_pr(h) ==
    [heap |-> h,
     d |-> [status |-> Str("pr_ready"),
            pr_url |-> Str("https://example.local/pr/1")]]

NodeResult(fn, h) ==
    CASE fn = "load_context" -> load_context(h)
      [] fn = "plan_issue" -> plan_issue(h)
      [] fn = "execute_issue" -> execute_issue(h)
      [] fn = "create_pr" -> create_pr(h)
      [] fn \in QuietFns -> [heap |-> h, d |-> NoKeys]

\* ------------------------------------------------------- nodes package

PackageFns ==
    {"nodes.load_context", "nodes.plan_issue", "nodes.execute_issue",
     "nodes.create_pr"}

\* bool(value) for the values a state holds: None, "" and empty containers
\* are falsy.
PyTruthy(h, v) ==
    IF v.t = "ref"
    THEN IF h[v.r].kind = "dict" THEN DOMAIN h[v.r].d # {}
         ELSE Len(h[v.r].l) > 0
    ELSE Truthy(v)

\* GraphState(**state) with one key set, and with one key popped.
With(d, key, v) == (key :> v) @@ d
Without(d, key) == [k \in DOMAIN d \ {key} |-> d[k]]

\* What the environment does to one call of a node: the outcome of opening
\* each file, and whether get_settings() finds the required settings.
Envs == [fs : [Files -> FileOutcomes], settings_ok : BOOLEAN]

\* What the awaited capability does: it returns a response or raises.
Causes == {"API Error", "timeout"}
\* A response is a sequence of tokens: a code fence of three backquotes
\* (Fence), the same followed by the word diff (FenceDiff), a newline, text.
Fence == "<fence>"
FenceDiff == "<fence>diff"
Responses ==
    {<<"--- a.py">>,
     <<FenceDiff, "\n", "--- a.py", "\n", Fence>>,
     <<Fence, "\n", "--- a.py", "\n", Fence>>}
Outcomes ==
    {[ok |-> TRUE, cause |-> "", response |-> x] : x \in Responses}
        \cup {[ok |-> FALSE, cause |-> c, response |-> <<>>] : c \in Causes}

NoTargetFiles == "No target_files specified; unable to execute issue."
SettingsError == "ValidationError: Settings"
ReadCause == "Permission denied"

NoCall == [raised |-> FALSE, phase |-> "ready", error |-> "", opened |-> <<>>,
           plan |-> 0, diff |-> 0]

\* plan_issue.py:96-158: the settings are loaded and the client built outside
\* the try block, then the plan capability is called once and awaited.
nodes_plan_issue_call(env) ==
    IF ~env.settings_ok
    THEN [NoCall EXCEPT !.raised = TRUE, !.phase = "raised",
                        !.error = SettingsError]
    ELSE [NoCall EXCEPT !.phase = "plan_llm", !.plan = 1]

\* An execute_issue whose file reads are not guarded: a missing file raises
\* out of the node.
nodes_execute_issue_call_unguarded(h, ws, env) ==
    LET tf == DictGet(h, ws, "target_files")
        files == IF tf.t = "ref"
                 THEN [i \in DOMAIN h[tf.r].l |-> h[tf.r].l[i].s] ELSE <<>>
        bad == {i \in DOMAIN files : env.fs[files[i]] # "ok"}
        first == IF bad = {} THEN 0
                 ELSE CHOOSE i \in bad : \A j \in bad : i <= j
    IN IF ~PyTruthy(h, tf)
       THEN [NoCall EXCEPT !.phase = "failed", !.error = NoTargetFiles]
       ELSE IF first # 0
       THEN [NoCall EXCEPT
               !.raised = TRUE, !.phase = "raised",
               !.error = "File not found: " \o files[first],
               !.opened = SubSeq(files, 1, first)]
       ELSE IF ~env.settings_ok
       THEN [NoCall EXCEPT !.raised = TRUE, !.phase = "raised",
                           !.error = SettingsError, !.opened = files]
       ELSE [NoCall EXCEPT !.phase = "diff_llm", !.opened = files, !.diff = 1]

\* An execute_issue that tries every target file before it reports the
\* first one it could not read.
nodes_execute_issue_call_read_all(h, ws, env) ==
    LET tf == DictGet(h, ws, "target_files")
        files == IF tf.t = "ref"
                 THEN [i \in DOMAIN h[tf.r].l |-> h[tf.r].l[i].s] ELSE <<>>
        bad == {i \in DOMAIN files : env.fs[files[i]] # "ok"}
        first == IF bad = {} THEN 0
                 ELSE CHOOSE i \in bad : \A j \in bad : i <= j
    IN IF ~PyTruthy(h, tf)
       THEN [NoCall EXCEPT !.phase = "failed", !.error = NoTargetFiles]
       ELSE IF first # 0
       THEN [NoCall EXCEPT
               !.phase = "failed",
               !.error = IF env.fs[files[first]] = "missing"
                         THEN "File not found: " \o files[first]
                         ELSE "Error reading file " \o files[first] \o ": "
                                  \o ReadCause,
               !.opened = files]
       ELSE IF ~env.settings_ok
       THEN [NoCall EXCEPT !.raised = TRUE, !.phase = "raised",
                           !.error = SettingsError, !.opened = files]
       ELSE [NoCall EXCEPT !.phase = "diff_llm", !.opened = files, !.diff = 1]

\* execute_issue.py:40-88: no target_files is an error at once; the files are
\* opened in order and the first that fails ends the node with an error;
\* then the settings are loaded (outside any try block) and the diff
\* capability is called and awaited.
nodes_execute_issue_call(h, ws, env) ==
    LET tf == DictGet(h, ws, "target_files")
        files == IF tf.t = "ref"
                 THEN [i \in DOMAIN h[tf.r].l |-> h[tf.r].l[i].s] ELSE <<>>
        bad == {i \in DOMAIN files : env.fs[files[i]] # "ok"}
        first == IF bad = {} THEN 0
                 ELSE CHOOSE i \in bad : \A j \in bad : i <= j
    IN IF ~PyTruthy(h, tf)
       THEN [NoCall EXCEPT !.phase = "failed", !.error = NoTargetFiles]
       ELSE IF first # 0
       THEN [NoCall EXCEPT
               !.phase = "failed",
               !.error = IF env.fs[files[first]] = "missing"
                         THEN "File not found: " \o files[first]
                         ELSE "Error reading file " \o files[first] \o ": "
                                  \o ReadCause,
               !.opened = SubSeq(files, 1, first)]
       ELSE IF ~env.settings_ok
       THEN [NoCall EXCEPT !.raised = TRUE, !.phase = "raised",
                           !.error = SettingsError, !.opened = files]
       ELSE [NoCall EXCEPT !.phase = "diff_llm", !.opened = files, !.diff = 1]

\* A node of the package from its call to its first suspension point (or to
\* its end, when it awaits nothing).
package_call(fn, h, ws, env) ==
    CASE fn = "nodes.load_context" -> NoCall
      [] fn = "nodes.plan_issue" -> nodes_plan_issue_call(env)
      [] fn = "nodes.execute_issue" -> nodes_execute_issue_call(h, ws, env)
      [] fn = "nodes.create_pr" -> NoCall

\* load_context.py:18-22: a copy of the state with the status set and the
\* error key popped from the copy.
nodes_load_context(h, ws) ==
    [heap |-> h, failure |-> "",
     d |-> Without(With(h[ws].d, "status", Str("context_loaded")), "error")]

\* The PlanModel the plan capability returns, as model_dump() gives it.
PlanDump(h) ==
    LET dd == Alloc(h, List(<<Str("tests pass")>>))
        st == Alloc(dd.heap, List(<<Str("edit a.py")>>))
        tf == Alloc(st.heap, List(<<Str("a.py")>>))
    IN Alloc(tf.heap,
             Dict([definition_of_done |-> Ref(dd.addr),
                   steps |-> Ref(st.addr),
                   target_files |-> Ref(tf.addr),
                   estimated_complexity |-> Str("low")]))

\* A plan_issue that reports a failed capability as an empty plan.
nodes_plan_issue_swallow(h, ws, out) ==
    LET p == IF out.ok THEN PlanDump(h) ELSE Alloc(h, Dict(NoKeys))
    IN [heap |-> p.heap, failure |-> "",
        d |-> With(With(h[ws].d, "status", Str("planned")),
                   "plan", Ref(p.addr))]

\* plan_issue.py:157-170: the awaited capability raised, or returned a plan.
nodes_plan_issue(h, ws, out) ==
    IF ~out.ok
    THEN LET msg == "Failed to generate plan: " \o out.cause
         IN [heap |-> h, failure |-> msg,
             d |-> With(With(h[ws].d, "status", Str("error")),
                        "error", Str(msg))]
    ELSE LET p == PlanDump(h)
         IN [heap |-> p.heap, failure |-> "",
             d |-> With(With(h[ws].d, "status", Str("planned")),
                        "plan", Ref(p.addr))]

\* execute_issue.py:96-105 on a response cut into tokens: a leading fence
\* and a trailing fence are cut off, then surrounding whitespace.
RECURSIVE Strip(_)
Strip(x) ==
    IF x # <<>> /\ Head(x) = "\n" THEN Strip(Tail(x))
    ELSE IF x # <<>> /\ x[Len(x)] = "\n" THEN Strip(SubSeq(x, 1, Len(x) - 1))
    ELSE x

RECURSIVE Join(_)
Join(x) == IF x = <<>> THEN "" ELSE Head(x) \o Join(Tail(x))

strip_fences(x) ==
    LET a == IF x # <<>> /\ Head(x) \in {FenceDiff, Fence} THEN Tail(x) ELSE x
        b == IF a # <<>> /\ a[Len(a)] = Fence
             THEN SubSeq(a, 1, Len(a) - 1) ELSE a
    IN Join(Strip(b))

\* execute_issue.py:43-64 and 87-116: the error found before the capability
\* was called, or the capability raised, or it returned a diff.
nodes_execute_issue(h, ws, pend, out) ==
    LET msg == IF pend.phase = "failed" THEN pend.error
               ELSE IF ~out.ok THEN "Error generating patch: " \o out.cause
               ELSE ""
    IN IF msg # ""
       THEN [heap |-> h, failure |-> msg,
             d |-> With(With(h[ws].d, "status", Str("error")),
                        "error", Str(msg))]
       ELSE [heap |-> h, failure |-> "",
             d |-> With(With(h[ws].d, "diff", Str(strip_fences(out.response))),
                        "status", Str("executed"))]

\* create_pr.py:27-35
nodes_create_pr(h, ws) ==
    LET url == Str("https://github.com/example/repo/pull/1")
        pr == Alloc(h, Dict([number |-> PyInt("1"), html_url |-> url,
                             state |-> Str("open")]))
    IN [heap |-> pr.heap, failure |-> "",
        d |-> With(With(With(h[ws].d, "status", Str("pr_created")),
                        "pr_url", url),
                   "pr_data", Ref(pr.addr))]

\* What a node of the package returns when it resumes.
package_result(fn, h, ws, pend, out) ==
    CASE fn = "nodes.load_context" -> nodes_load_context(h, ws)
      [] fn = "nodes.plan_issue" -> nodes_plan_issue(h, ws, out)
      [] fn = "nodes.execute_issue" -> nodes_execute_issue(h, ws, pend, out)
      [] fn = "nodes.create_pr" -> nodes_create_pr(h, ws)

\* The content of a returned dict.
DictContent(h, d) == CDict([k \in DOMAIN d |-> Content(h, d[k])])

\* -------------------------------------------------------- _CompiledGraph

Nodes == heap[graph.nodes].d
Edges == heap[graph.edges].d

\* A resolution that prefers the top-level thread_id to the nested one.
resolve_thread_id_top_first(config) ==
    IF ~config.given THEN "default"
    ELSE IF Truthy(config.top) THEN config.top.s
    ELSE IF Truthy(config.nested) THEN config.nested.s
    ELSE "default"

\* The thread id ainvoke uses: config["configurable"]["thread_id"], or
\* config["thread_id"], or "default" (each skipped when falsy).
resolve_thread_id(config) ==
    IF ~config.given THEN "default"
    ELSE IF Truthy(config.nested) THEN config.nested.s
    ELSE IF Truthy(config.top) THEN config.top.s
    ELSE "default"

NoConfig == [given |-> FALSE, nested |-> None, top |-> None]
Config(nested, top) == [given |-> TRUE, nested |-> nested, top |-> top]

\* The configs a caller passes: none, {}, a nested thread id, a top-level one,
\* both, and an empty nested id beside a top-level one.
Configs ==
    {NoConfig, Config(None, None), Config(Str("t1"), None),
     Config(None, Str("t2")), Config(Str("t1"), Str("t2")),
     Config(Str(""), Str("t2"))}

\* The state records a caller passes to run.
InitialState(h, kind) ==
    CASE kind = "new" ->
           LET tr == Alloc(h, List(<<>>))
           IN Alloc(tr.heap, Dict([status |-> Str("new"), trace |-> Ref(tr.addr)]))
      [] kind = "untraced" ->
           Alloc(h, Dict([status |-> Str("new")]))
      [] kind = "errored" ->
           Alloc(h, Dict([status |-> Str("error"),
                          error |-> Str("left by an earlier run")]))
      [] kind = "no_files" ->
           LET tf == Alloc(h, List(<<>>))
           IN Alloc(tf.heap, Dict([status |-> Str("new"),
                                   issue_title |-> Str("Fix it"),
                                   target_files |-> Ref(tf.addr)]))
      [] kind = "one_file" ->
           LET tf == Alloc(h, List(<<Str("a.py")>>))
           IN Alloc(tf.heap, Dict([status |-> Str("new"),
                                   target_files |-> Ref(tf.addr)]))
      [] kind = "two_files" ->
           LET tf == Alloc(h, List(<<Str("a.py"), Str("b.py")>>))
           IN Alloc(tf.heap, Dict([status |-> Str("new"),
                                   issue_title |-> Str("Fix it"),
                                   target_files |-> Ref(tf.addr)]))

\* A merge that replaces the working state's content by the update.
merge_replace(h, ws, d) ==
    IF DOMAIN d = {} THEN h ELSE [h EXCEPT ![ws] = Dict(d)]

\* lines 70-73: a truthy result is merged key by key into the working state.
merge(h, ws, d) ==
    IF DOMAIN d = {} THEN h
    ELSE [h EXCEPT ![ws] =
            Dict([k \in DOMAIN h[ws].d \cup DOMAIN d |->
                    IF k \in DOMAIN d THEN d[k] ELSE h[ws].d[k]])]

\* A lookup that stays on the node when it has no outgoing edge.
successor_self(edges, cur) == IF cur \in DOMAIN edges THEN edges[cur].s ELSE cur

\* self.edges.get(current, END)
successor(edges, cur) == IF cur \in DOMAIN edges THEN edges[cur].s ELSE END

\* An ainvoke that works on copy.copy of the caller's state: a new top-level
\* dict over the caller's own nested objects.
Ainvoke_shallow(r, kind, config) ==
    /\ pc[r] = "idle" /\ graph.made
    /\ LET init == InitialState(heap, kind)
           ws == shallowcopy(init.heap, init.addr)
           tid == resolve_thread_id(config)
           p == put(ws.heap, store, tid, ws.addr)
       IN /\ heap' = p.heap
          /\ store' = p.store
          /\ caller_state' = [caller_state EXCEPT ![r] = init.addr]
          /\ working_state' = [working_state EXCEPT ![r] = ws.addr]
          /\ thread_id' = [thread_id EXCEPT ![r] = tid]
          /\ run_config' = [run_config EXCEPT ![r] = config]
          /\ putlog' = Append(putlog, Logged(r, tid, p))
    /\ current' = [current EXCEPT ![r] = graph.entry_point]
    /\ pc' = [pc EXCEPT ![r] = "loop"]
    /\ UNCHANGED <<visited, steps, node>>
    /\ UNCHANGED buildvars
    /\ UNCHANGED obsvars
    /\ UNCHANGED effvars

\* ainvoke up to the loop: thread id, deep copy of the caller's state, the
\* initial put.
Ainvoke(r, kind, config) ==
    /\ pc[r] = "idle" /\ graph.made
    /\ LET init == InitialState(heap, kind)
           ws == deepcopy(init.heap, init.addr)
           tid == resolve_thread_id(config)
           p == put(ws.heap, store, tid, ws.addr)
       IN /\ heap' = p.heap
          /\ store' = p.store
          /\ caller_state' = [caller_state EXCEPT ![r] = init.addr]
          /\ working_state' = [working_state EXCEPT ![r] = ws.addr]
          /\ thread_id' = [thread_id EXCEPT ![r] = tid]
          /\ run_config' = [run_config EXCEPT ![r] = config]
          /\ putlog' = Append(putlog, Logged(r, tid, p))
    /\ current' = [current EXCEPT ![r] = graph.entry_point]
    /\ pc' = [pc EXCEPT ![r] = "loop"]
    /\ UNCHANGED <<visited, steps, node>>
    /\ UNCHANGED buildvars
    /\ UNCHANGED obsvars
    /\ UNCHANGED effvars

\* lines 66-69: the node bound to current is called with the working state
\* and runs up to its suspension point.
NodeCall(r) ==
    /\ pc[r] = "loop" /\ current[r] # END
    /\ current[r] \in DOMAIN Nodes
    /\ Nodes[current[r]].s \in NodeFns
    /\ Len(visited[r]) < MaxSteps
    /\ LET fn == Nodes[current[r]].s
       IN /\ node' = [node EXCEPT ![r] = fn]
          /\ heap' = NodeBody(fn, heap, working_state[r])
    /\ visited' = [visited EXCEPT ![r] = Append(@, current[r])]
    /\ pc' = [pc EXCEPT ![r] = "await"]
    /\ UNCHANGED <<store, current, thread_id, run_config, working_state, caller_state,
                   steps, putlog>>
    /\ UNCHANGED buildvars
    /\ UNCHANGED obsvars
    /\ UNCHANGED effvars

\* A loop that skips a name it does not find in the node map.
KeyError_skipped(r) ==
    /\ pc[r] = "loop" /\ current[r] # END
    /\ current[r] \notin DOMAIN Nodes
    /\ current' = [current EXCEPT ![r] = successor(Edges, current[r])]
    /\ UNCHANGED <<heap, store, pc, thread_id, run_config, working_state, caller_state,
                   visited, steps, putlog, node>>
    /\ UNCHANGED buildvars
    /\ UNCHANGED obsvars
    /\ UNCHANGED effvars

\* line 66: self.nodes[current] raises KeyError for an unregistered name.
KeyError(r) ==
    /\ pc[r] = "loop" /\ current[r] # END
    /\ current[r] \notin DOMAIN Nodes
    /\ pc' = [pc EXCEPT ![r] = "raised"]
    /\ UNCHANGED <<heap, store, current, thread_id, run_config, working_state, caller_state,
                   visited, steps, putlog, node>>
    /\ UNCHANGED buildvars
    /\ UNCHANGED obsvars
    /\ UNCHANGED effvars

\* A loop body that checkpoints before merging the node's result.
NodeReturn_put_first(r) ==
    /\ pc[r] = "await" /\ node[r] \in NodeFns
    /\ LET res == NodeResult(node[r], heap)
           p == put(res.heap, store, thread_id[r], working_state[r])
           h1 == merge(p.heap, working_state[r], res.d)
       IN /\ heap' = h1
          /\ store' = p.store
          /\ putlog' = Append(putlog, Logged(r, thread_id[r], p))
    /\ steps' = [steps EXCEPT ![r] = @ + 1]
    /\ current' = [current EXCEPT ![r] = successor(Edges, current[r])]
    /\ pc' = [pc EXCEPT ![r] = "loop"]
    /\ UNCHANGED <<thread_id, run_config, working_state, caller_state, visited, node>>
    /\ UNCHANGED buildvars
    /\ UNCHANGED obsvars
    /\ UNCHANGED effvars

\* A loop body that writes no checkpoint for a node that returned nothing.
NodeReturn_skip_empty(r) ==
    /\ pc[r] = "await" /\ node[r] \in NodeFns
    /\ LET res == NodeResult(node[r], heap)
           h1 == merge(res.heap, working_state[r], res.d)
           p == put(h1, store, thread_id[r], working_state[r])
       IN IF DOMAIN res.d = {}
          THEN UNCHANGED <<heap, store, putlog>>
          ELSE /\ heap' = p.heap
               /\ store' = p.store
               /\ putlog' = Append(putlog, Logged(r, thread_id[r], p))
    /\ steps' = [steps EXCEPT ![r] = @ + 1]
    /\ current' = [current EXCEPT ![r] = successor(Edges, current[r])]
    /\ pc' = [pc EXCEPT ![r] = "loop"]
    /\ UNCHANGED <<thread_id, run_config, working_state, caller_state, visited,
                   node>>
    /\ UNCHANGED buildvars
    /\ UNCHANGED obsvars
    /\ UNCHANGED effvars

\* lines 69-76: the node's result is merged, the working state is put, and
\* current advances along the edge map.
NodeReturn(r) ==
    /\ pc[r] = "await" /\ node[r] \in NodeFns
    /\ LET res == NodeResult(node[r], heap)
           h1 == merge(res.heap, working_state[r], res.d)
           p == put(h1, store, thread_id[r], working_state[r])
       IN /\ heap' = p.heap
          /\ store' = p.store
          /\ putlog' = Append(putlog, Logged(r, thread_id[r], p))
    /\ steps' = [steps EXCEPT ![r] = @ + 1]
    /\ current' = [current EXCEPT ![r] = successor(Edges, current[r])]
    /\ pc' = [pc EXCEPT ![r] = "loop"]
    /\ UNCHANGED <<thread_id, run_config, working_state, caller_state, visited, node>>
    /\ UNCHANGED buildvars
    /\ UNCHANGED obsvars
    /\ UNCHANGED effvars

\* A loop with a step limit: it also ends once two nodes have been invoked.
Return_step_limit(r) ==
    /\ pc[r] = "loop" /\ (current[r] = END \/ Len(visited[r]) >= 2)
    /\ pc' = [pc EXCEPT ![r] = "returned"]
    /\ UNCHANGED <<heap, store, current, thread_id, run_config, working_state, caller_state,
                   visited, steps, putlog, node>>
    /\ UNCHANGED buildvars
    /\ UNCHANGED obsvars
    /\ UNCHANGED effvars

\* line 78: the loop ends at END and the working state itself is returned.
Return(r) ==
    /\ pc[r] = "loop" /\ current[r] = END
    /\ pc' = [pc EXCEPT ![r] = "returned"]
    /\ UNCHANGED <<heap, store, current, thread_id, run_config, working_state, caller_state,
                   visited, steps, putlog, node>>
    /\ UNCHANGED buildvars
    /\ UNCHANGED obsvars
    /\ UNCHANGED effvars

\* lines 66-69 for a node of the nodes package: the node runs up to its
\* suspension point, or raises, which ends the run (ainvoke catches nothing).
PkgCall(r, env) ==
    /\ pc[r] = "loop" /\ current[r] # END
    /\ current[r] \in DOMAIN Nodes
    /\ Nodes[current[r]].s \in PackageFns
    /\ Len(visited[r]) < MaxSteps
    /\ LET fn == Nodes[current[r]].s
           c == package_call(fn, heap, working_state[r], env)
       IN /\ node' = [node EXCEPT ![r] = fn]
          /\ pc' = [pc EXCEPT ![r] = IF c.raised THEN "raised" ELSE "await"]
          /\ reads' = reads \o c.opened
          /\ plan_calls' = plan_calls + c.plan
          /\ diff_calls' = diff_calls + c.diff
          /\ pending' = [pending EXCEPT ![r] =
                [phase |-> c.phase, error |-> c.error,
                 input |-> Content(heap, Ref(working_state[r])),
                 fs |-> IF fn = "nodes.execute_issue" THEN env.fs ELSE AllOk,
                 reads0 |-> Len(reads), plans0 |-> plan_calls,
                 diffs0 |-> diff_calls, cause |-> "", result |-> CNone]]
    /\ visited' = [visited EXCEPT ![r] = Append(@, current[r])]
    /\ UNCHANGED <<heap, store, current, thread_id, run_config, working_state,
                   caller_state, steps, putlog>>
    /\ UNCHANGED buildvars
    /\ UNCHANGED obsvars

\* A loop that stops following edges once a node has returned status "error".
PkgReturn_stop_on_error(r, out) ==
    /\ pc[r] = "await" /\ node[r] \in PackageFns
    /\ LET res == package_result(node[r], heap, working_state[r], pending[r],
                                 out)
           h1 == merge(res.heap, working_state[r], res.d)
           p == put(h1, store, thread_id[r], working_state[r])
       IN /\ heap' = p.heap
          /\ store' = p.store
          /\ putlog' = Append(putlog, Logged(r, thread_id[r], p))
          /\ pending' = [pending EXCEPT
                ![r].phase = "done", ![r].error = res.failure,
                ![r].cause = IF pending[r].phase \in {"plan_llm", "diff_llm"}
                             THEN out.cause ELSE "",
                ![r].result = DictContent(res.heap, res.d)]
          /\ current' = [current EXCEPT ![r] =
                IF res.d["status"] = Str("error") THEN END
                ELSE successor(Edges, current[r])]
    /\ steps' = [steps EXCEPT ![r] = @ + 1]
    /\ pc' = [pc EXCEPT ![r] = "loop"]
    /\ UNCHANGED <<thread_id, run_config, working_state, caller_state, visited,
                   node, reads, plan_calls, diff_calls>>
    /\ UNCHANGED buildvars
    /\ UNCHANGED obsvars

\* lines 69-76 for a node of the nodes package: the awaited node resumes and
\* returns, its result is merged, the working state is put, and current
\* advances along the edge map.
PkgReturn(r, out) ==
    /\ pc[r] = "await" /\ node[r] \in PackageFns
    /\ LET res == package_result(node[r], heap, working_state[r], pending[r],
                                 out)
           h1 == merge(res.heap, working_state[r], res.d)
           p == put(h1, store, thread_id[r], working_state[r])
       IN /\ heap' = p.heap
          /\ store' = p.store
          /\ putlog' = Append(putlog, Logged(r, thread_id[r], p))
          /\ pending' = [pending EXCEPT
                ![r].phase = "done", ![r].error = res.failure,
                ![r].cause = IF pending[r].phase \in {"plan_llm", "diff_llm"}
                             THEN out.cause ELSE "",
                ![r].result = DictContent(res.heap, res.d)]
    /\ steps' = [steps EXCEPT ![r] = @ + 1]
    /\ current' = [current EXCEPT ![r] = successor(Edges, current[r])]
    /\ pc' = [pc EXCEPT ![r] = "loop"]
    /\ UNCHANGED <<thread_id, run_config, working_state, caller_state, visited,
                   node, reads, plan_calls, diff_calls>>
    /\ UNCHANGED buildvars
    /\ UNCHANGED obsvars

Run(r) == NodeCall(r) \/ KeyError(r) \/ NodeReturn(r) \/ Return(r)

Next ==
    \/ \E n \in Names, f \in {"load_context", "plan_issue"} : AddNode(n, f)
    \/ \E n \in Names \cup {""} : SetEntryPoint(n)
    \/ \E n \in Names, d \in Names \cup {END} : AddEdge(n, d)
    \/ Compile
    \/ BuildGraph
    \/ \E r \in Solo, k \in {"new", "untraced"} : Ainvoke(r, k, NoConfig)
    \/ \E r \in Solo : NodeCall(r)
    \/ \E r \in Solo : KeyError(r)
    \/ \E r \in Solo : NodeReturn(r)
    \/ \E r \in Solo : Return(r)

Spec == Init /\ [][Next]_vars

\* One run of the built pipeline or of any graph over two nodes, chains with
\* cycles included.
NextLoop ==
    \/ BuildGraph
    \/ \E e \in Names, d1, d2 \in Names \cup {END, NoEdge} : WireChain(e, d1, d2)
    \/ \E r \in Solo, k \in {"new", "untraced"} : Ainvoke(r, k, NoConfig)
    \/ \E r \in Solo : NodeCall(r)
    \/ \E r \in Solo : NodeReturn(r)
    \/ \E r \in Solo : Return(r)

\* Run r has a step to take: a suspended node to resume, END to return at,
\* or a node to call (within the steps explored).
CanStep(r) ==
    \/ pc[r] = "await"
    \/ /\ pc[r] = "loop"
       /\ \/ current[r] = END
          \/ current[r] \in DOMAIN Nodes /\ Len(visited[r]) < MaxSteps

\* A step of run r, seen at its position: NodeCall, NodeReturn and Return
\* are the steps that change pc[r] from "loop" or "await".
Resume(r) ==
    /\ CanStep(r)
    /\ \E v \in {"loop", "await", "returned"} \ {pc[r]} :
          pc' = [pc EXCEPT ![r] = v]

\* The event loop drives a started run: a step of ainvoke that can be taken
\* is eventually taken (every node returns).
SpecLoop == Init /\ [][NextLoop]_vars /\ \A r \in Solo : WF_pc(Resume(r))

\* ------------------------------------------------- observer and caller

\* What a caller holding a state record can do to it: rebind a top-level
\* key, append to its trace list, rewrite a field of its plan record.
MutationKinds == {"set_status", "append_trace", "set_plan"}

CanMutate(h, a, m) ==
    CASE m = "set_status" -> TRUE
      [] m = "append_trace" -> DictGet(h, a, "trace").t = "ref"
      [] m = "set_plan" -> DictGet(h, a, "plan").t = "ref"

Mutate(h, a, m) ==
    CASE m = "set_status" -> SetItem(h, a, "status", Str("tampered"))
      [] m = "append_trace" ->
           ListAppend(h, DictGet(h, a, "trace").r, Str("tampered"))
      [] m = "set_plan" ->
           SetItem(h, DictGet(h, a, "plan").r, "estimated_complexity",
                   Str("high"))

\* An observer polls the checkpoint store.
Get(tid) ==
    /\ gets < MaxGets
    /\ LET g == get(heap, store, tid)
       IN /\ heap' = g.heap
          /\ snapshot' = [tid |-> tid, addr |-> g.addr]
          /\ getlog' = Append(getlog,
                              [tid |-> tid, addr |-> g.addr,
                               puts |-> Len(putlog),
                               objects |-> IF g.addr = 0 THEN {}
                                           ELSE Reach(g.heap, g.addr),
                               content |-> IF g.addr = 0 THEN CNone
                                           ELSE Content(g.heap, Ref(g.addr))])
    /\ gets' = gets + 1
    /\ UNCHANGED <<store, mutations>>
    /\ UNCHANGED runvars
    /\ UNCHANGED buildvars
    /\ UNCHANGED effvars

\* The caller mutates the state run returned to it.
MutateReturned(r, m) ==
    /\ pc[r] = "returned"
    /\ Len(mutations) < MaxMutations
    /\ CanMutate(heap, working_state[r], m)
    /\ heap' = Mutate(heap, working_state[r], m)
    /\ mutations' = Append(mutations, [target |-> "returned", kind |-> m])
    /\ UNCHANGED <<store, snapshot, gets, getlog>>
    /\ UNCHANGED runvars
    /\ UNCHANGED buildvars
    /\ UNCHANGED effvars

\* The observer mutates the snapshot get returned to it.
MutateSnapshot(m) ==
    /\ snapshot.addr # 0
    /\ Len(mutations) < MaxMutations
    /\ CanMutate(heap, snapshot.addr, m)
    /\ heap' = Mutate(heap, snapshot.addr, m)
    /\ mutations' = Append(mutations, [target |-> "snapshot", kind |-> m])
    /\ UNCHANGED <<store, snapshot, gets, getlog>>
    /\ UNCHANGED runvars
    /\ UNCHANGED buildvars
    /\ UNCHANGED effvars

\* The built pipeline, run once, watched by an observer of the store and
\* followed by a caller who mutates what it was handed.
NextIsolation ==
    \/ BuildGraph
    \/ \E r \in Solo, k \in {"new", "untraced"} : Ainvoke(r, k, NoConfig)
    \/ \E r \in Solo : NodeCall(r)
    \/ \E r \in Solo : NodeReturn(r)
    \/ \E r \in Solo : Return(r)
    \/ \E tid \in {"default", "t1"} : Get(tid)
    \/ \E r \in Solo, m \in MutationKinds : MutateReturned(r, m)
    \/ \E m \in MutationKinds : MutateSnapshot(m)

SpecIsolation == Init /\ [][NextIsolation]_vars

\* The built pipeline, run once under each config.
NextConfig ==
    \/ BuildGraph
    \/ \E r \in Solo, k \in {"new", "untraced"}, c \in Configs : Ainvoke(r, k, c)
    \/ \E r \in Solo : NodeCall(r)
    \/ \E r \in Solo : NodeReturn(r)
    \/ \E r \in Solo : Return(r)

SpecConfig == Init /\ [][NextConfig]_vars

\* Two runs of one compiled graph, interleaved at the suspension points of
\* their nodes, under the same thread id or under different ones.
NextConcurrent ==
    \/ WireShortChain
    \/ \E r \in RunIds, k \in {"new", "untraced"},
          c \in {NoConfig, Config(Str("t1"), None)} : Ainvoke(r, k, c)
    \/ \E r \in RunIds : NodeCall(r)
    \/ \E r \in RunIds : NodeReturn(r)
    \/ \E r \in RunIds : Return(r)

SpecConcurrent == Init /\ [][NextConcurrent]_vars

\* The states a caller passes to a pipeline whose nodes can fail.
StateKinds ==
    {"new", "untraced", "errored", "no_files", "one_file", "two_files"}

\* One run of the built pipeline or of the pipeline over the nodes package,
\* in an environment where files can be missing and capabilities can fail.
NextNodes ==
    \/ BuildGraph
    \/ WirePackage
    \/ \E r \in Solo, k \in StateKinds : Ainvoke(r, k, NoConfig)
    \/ \E r \in Solo : NodeCall(r)
    \/ \E r \in Solo : NodeReturn(r)
    \/ \E r \in Solo, env \in Envs : PkgCall(r, env)
    \/ \E r \in Solo, out \in Outcomes : PkgReturn(r, out)
    \/ \E r \in Solo : Return(r)

SpecNodes == Init /\ [][NextNodes]_vars

\* One run of a graph with nodes that return nothing, watched by an observer
\* of the store.
NextQuiet ==
    \/ WireQuietChain
    \/ \E r \in Solo, k \in StateKinds : Ainvoke(r, k, NoConfig)
    \/ \E r \in Solo : NodeCall(r)
    \/ \E r \in Solo : NodeReturn(r)
    \/ \E r \in Solo : Return(r)
    \/ Get("default")

SpecQuiet == Init /\ [][NextQuiet]_vars

\* ---------------------------------------------------------------- views

Started(r) == pc[r] # "idle"

\* The puts of run r, in order.
PutsOf(r) == SelectSeq(putlog, LAMBDA e : e.run = r)

\* The number of snapshots the store holds under a thread id.
StoredCount(tid) == Cardinality({store[tid]} \ {0})

\* The content a get(tid) would return now.
StoreContent(tid) == Content(heap, Ref(store[tid]))

WorkingContent(r) == Content(heap, Ref(working_state[r]))

\* The status each node of graph.py writes.
StatusOf(fn) ==
    CASE fn = "load_context" -> "context_loaded"
      [] fn = "plan_issue" -> "planned"
      [] fn = "execute_issue" -> "executed"
      [] fn = "create_pr" -> "pr_ready"

\* The function run r invoked at its i-th step.
FnAt(r, i) == Nodes[visited[r][i]].s

NewContent == CDict([status |-> CStr("new"), trace |-> CList(<<>>)])

\* The content of the record the caller passed to run r.
InitialContent(r) == Content(heap, Ref(caller_state[r]))

\* --------------------------------------------------------------- claims

\* C1 (as claimed): the number of checkpoints stored for the run's thread id
\* equals the number of steps executed plus one.
C1_AsClaimed ==
    \A r \in RunIds :
        Started(r) => StoredCount(thread_id[r]) = steps[r] + 1

\* C1 (amended): a run writes steps + 1 checkpoints under its thread id, in
\* order: the initial state before the first node, then the working state
\* after each completed node; the store keeps only the most recent of them.
C1_PutsPerStep ==
    \A r \in RunIds :
        Started(r) =>
            LET ps == PutsOf(r)
            IN /\ Len(ps) = steps[r] + 1
               /\ \A k \in 1..Len(ps) : ps[k].tid = thread_id[r]
               /\ ps[1].content = InitialContent(r)
               /\ \A k \in 1..steps[r] :
                     /\ ps[k + 1].content.d["trace"]
                            = CList([i \in 1..k |-> CStr(FnAt(r, i))])
                     /\ ps[k + 1].content.d["status"]
                            = CStr(StatusOf(FnAt(r, k)))
               /\ StoredCount(thread_id[r]) = 1
               /\ StoreContent(thread_id[r]) = ps[Len(ps)].content

C1_Witness ==
    \E r \in RunIds : pc[r] = "returned" /\ steps[r] >= 2

\* C2: within one run a node is invoked only when no other node of the run is
\* in flight and every earlier result has been merged and put: at each
\* invocation the store holds exactly the working state.
C2_Sequential ==
    [][\A r \in RunIds :
          Len(visited'[r]) > Len(visited[r]) =>
             /\ pc[r] = "loop" /\ pc'[r] = "await"
             /\ Len(visited'[r]) = Len(visited[r]) + 1
             /\ steps[r] = Len(visited[r])
             /\ Len(PutsOf(r)) = Len(visited[r]) + 1
             /\ PutsOf(r)[Len(PutsOf(r))].content = WorkingContent(r)
             /\ StoreContent(thread_id[r]) = WorkingContent(r)]_vars

C2_Witness ==
    \E r \in RunIds : pc[r] = "await" /\ steps[r] >= 1

\* The objects the checkpoint store holds.
StoreObjects ==
    UNION {Reach(heap, store[tid]) : tid \in {t \in ThreadIds : store[t] # 0}}

\* The last content put under a thread id.
PutsUnder(tid) == SelectSeq(putlog, LAMBDA e : e.tid = tid)
LastPut(tid) == PutsUnder(tid)[Len(PutsUnder(tid))].content

\* C3: the state run returned shares no object with the checkpoint store, so
\* whatever the caller does to it (top-level keys, the trace list, the plan
\* record), get(thread_id) still has the content of the run's last put.
C3_ReturnedIsolated ==
    \A r \in RunIds :
        pc[r] = "returned" =>
            /\ Reach(heap, working_state[r]) \cap StoreObjects = {}
            /\ StoreContent(thread_id[r]) = LastPut(thread_id[r])

C3_Witness ==
    \E r \in RunIds :
        /\ pc[r] = "returned"
        /\ \E i \in DOMAIN mutations :
              mutations[i].target = "returned" /\ mutations[i].kind = "set_plan"
        /\ WorkingContent(r) # StoreContent(thread_id[r])

\* C4: the store is value-isolated at both boundaries: whatever happened to
\* the state after it was put, or to a snapshot a get returned, get(id)
\* returns new objects whose content is that of the state when it was put
\* (and None for an id never put).
C4_StoreIsolated ==
    \A tid \in ThreadIds :
        LET g == get(heap, store, tid)
        IN IF PutsUnder(tid) = <<>> THEN g.addr = 0
           ELSE /\ g.addr # 0
                /\ Reach(g.heap, g.addr) \cap (1..Len(heap)) = {}
                /\ Content(g.heap, Ref(g.addr)) = LastPut(tid)

C4_Witness ==
    /\ snapshot.addr # 0
    /\ \E i \in DOMAIN mutations : mutations[i].target = "snapshot"
    /\ Content(heap, Ref(snapshot.addr)) # StoreContent(snapshot.tid)
    /\ \E r \in RunIds :
          pc[r] = "await" /\ WorkingContent(r) # StoreContent(thread_id[r])

\* C5: merging a node's update overwrites or inserts exactly the update's
\* keys, leaves every other key and its value untouched, removes no key.
C5_Merge ==
    [][\A r \in RunIds :
          (pc[r] = "await" /\ pc'[r] = "loop") =>
             LET old == heap[working_state[r]].d
                 res == NodeResult(node[r], heap)
                 new == heap'[working_state[r]].d
             IN /\ DOMAIN new = DOMAIN old \cup DOMAIN res.d
                /\ \A k \in DOMAIN res.d :
                      /\ new[k] = res.d[k]
                      /\ Content(heap', new[k]) = Content(res.heap, res.d[k])
                /\ \A k \in DOMAIN old \ DOMAIN res.d :
                      /\ new[k] = old[k]
                      /\ Content(heap', new[k]) = Content(heap, old[k])]_vars

\* {status: "new", trace: [..]} merged with {status: .., context: ..}: status
\* overwritten, context inserted, trace left as it was.
C5_Witness ==
    \E r \in RunIds :
        /\ pc[r] = "loop" /\ steps[r] = 1
        /\ WorkingContent(r) =
              CDict([status |-> CStr("context_loaded"),
                     trace |-> CList(<<CStr("load_context")>>),
                     context |-> CDict([loaded |-> CTrue])])

\* The module-level graph: compiled by build_graph.
Built == graph.made /\ ~builder.live

Pipeline == <<"load_context", "plan_issue", "execute_issue", "create_pr">>

IsPrefix(p, q) == Len(p) <= Len(q) /\ \A i \in 1..Len(p) : p[i] = q[i]

\* C6: a run of the built chain from {status: "new", trace: []} invokes the
\* four nodes once each, in order, and returns status "pr_ready", the trace
\* of the four names, a non-empty pr_url, and context, plan and
\* execution_result as the earlier nodes wrote them.
C6_Pipeline ==
    \A r \in RunIds :
        (Built /\ Started(r) /\ InitialContent(r) = NewContent) =>
            /\ IsPrefix(visited[r], Pipeline)
            /\ pc[r] = "returned" =>
                  /\ visited[r] = Pipeline
                  /\ WorkingContent(r).d["pr_url"].s # ""
                  /\ WorkingContent(r) =
                        CDict([status |-> CStr("pr_ready"),
                               trace |-> CList([i \in 1..4 |-> CStr(Pipeline[i])]),
                               pr_url |-> CStr("https://example.local/pr/1"),
                               context |-> CDict([loaded |-> CTrue]),
                               plan |-> CDict(
                                  [steps |-> CList(<<CStr("execute"),
                                                     CStr("create_pr")>>),
                                   definition_of_done |-> CList(<<>>),
                                   target_files |-> CList(<<>>),
                                   estimated_complexity |-> CStr("low")]),
                               execution_result |-> CDict([ok |-> CTrue])])

C6_Witness ==
    \E r \in RunIds :
        /\ Built /\ pc[r] = "returned" /\ Len(visited[r]) = 4
        /\ InitialContent(r) = NewContent

\* C7: on a builder whose set_entry_point was never called, compile raises
\* and produces no compiled graph, whatever was added.
C7_NoEntryPoint ==
    entry_calls = 0 =>
        /\ ~graph.made
        /\ compile_result \in {"none", "raised"}

C7_Witness ==
    /\ entry_calls = 0 /\ compile_result = "raised"
    /\ DOMAIN heap[builder.nodes].d # {}
    /\ DOMAIN heap[builder.edges].d # {}

\* C8 (as claimed): the check that the entry point is registered is made by
\* compile, so no run of a compiled graph fails because its entry point or an
\* edge destination is absent from the node map.
C8_AsClaimed ==
    \A r \in RunIds :
        ~(pc[r] = "raised" /\ current[r] \notin DOMAIN Nodes)

\* C8 (amended): neither set_entry_point nor compile checks that the entry
\* point is registered; compile rejects only a missing or empty entry point,
\* and a run fails exactly at a current name (the entry point or an edge
\* destination other than END) that the node map lacks.
C8_CompileChecksPresenceOnly ==
    /\ graph.made <=> compile_result = "ok"
    /\ graph.made => graph.entry_point # ""
    /\ \A r \in RunIds :
          pc[r] = "raised" =>
             /\ current[r] # END /\ current[r] \notin DOMAIN Nodes
             /\ steps[r] = 0 => current[r] = graph.entry_point
             /\ steps[r] > 0 =>
                   current[r] = successor(Edges, visited[r][Len(visited[r])])

C8_Witness ==
    \E r \in RunIds :
        /\ pc[r] = "raised" /\ steps[r] = 0
        /\ graph.entry_point \notin DOMAIN Nodes

\* The names a run of the compiled graph invokes, at most n of them: the
\* chain from cur along the edges, up to END or a name the node map lacks.
RECURSIVE Path(_, _)
Path(cur, n) ==
    IF cur = END \/ n = 0 \/ cur \notin DOMAIN Nodes THEN <<>>
    ELSE <<cur>> \o Path(successor(Edges, cur), n - 1)

\* Where that chain stops.
RECURSIVE PathEnd(_, _)
PathEnd(cur, n) ==
    IF cur = END \/ n = 0 \/ cur \notin DOMAIN Nodes THEN cur
    ELSE PathEnd(successor(Edges, cur), n - 1)

\* C9: a run whose current name is not in the node map fails at that step:
\* the nodes invoked are those before it on the chain, none at or after it,
\* no checkpoint is written for it, and the store holds the working state of
\* the last completed step (the initial snapshot when the entry point is
\* unknown); a run returns only when its chain reaches END.
C9_UnknownNodeFails ==
    \A r \in RunIds :
        Started(r) =>
            /\ IsPrefix(visited[r], Path(graph.entry_point, MaxSteps))
            /\ pc[r] = "returned" => PathEnd(graph.entry_point, MaxSteps) = END
            /\ pc[r] = "raised" =>
                  /\ current[r] = PathEnd(graph.entry_point, MaxSteps)
                  /\ current[r] # END /\ current[r] \notin DOMAIN Nodes
                  /\ visited[r] = Path(graph.entry_point, MaxSteps)
                  /\ steps[r] = Len(visited[r])
                  /\ Len(PutsOf(r)) = steps[r] + 1
                  /\ StoreContent(thread_id[r]) = WorkingContent(r)
                  /\ StoreContent(thread_id[r]) = LastPut(thread_id[r])
                  /\ steps[r] = 0 => StoreContent(thread_id[r]) = InitialContent(r)

C9_Witness ==
    \E r \in RunIds : pc[r] = "raised" /\ steps[r] >= 1

\* C10: once compiled, the compiled graph's node map, edge map and entry
\* point never change, whatever is done to the builder afterwards.
C10_CompiledFrozen ==
    [][graph.made =>
          /\ graph' = graph
          /\ heap'[graph.nodes] = heap[graph.nodes]
          /\ heap'[graph.edges] = heap[graph.edges]]_vars

C10_Witness ==
    /\ graph.made /\ builder.live
    /\ heap[builder.edges].d # Edges
    /\ builder.entry_point # Str(graph.entry_point)
    /\ \E r \in RunIds : pc[r] = "returned" /\ steps[r] >= 1

\* The puts made under tid among the first n puts.
PutsBefore(tid, n) == SelectSeq(SubSeq(putlog, 1, n), LAMBDA e : e.tid = tid)

\* C20: get is idempotent and free of side effects: two gets of one thread
\* id with no put between them return two distinct objects of equal content
\* (the content of the last put), a get of an id never put returns None, and
\* no get changes the store or any object that existed before it.
C20_GetIdempotent ==
    /\ [](\A i \in DOMAIN getlog :
            LET g == getlog[i]
            IN /\ (g.addr = 0) <=> (PutsBefore(g.tid, g.puts) = <<>>)
               /\ g.addr # 0 =>
                     g.content = PutsBefore(g.tid, g.puts)
                                     [Len(PutsBefore(g.tid, g.puts))].content
               /\ \A j \in DOMAIN getlog :
                     (j # i /\ getlog[j].tid = g.tid /\ getlog[j].puts = g.puts)
                         => /\ getlog[j].content = g.content
                            /\ getlog[j].objects \cap g.objects = {})
    /\ [][gets' = gets + 1 =>
             /\ store' = store
             /\ \A a \in 1..Len(heap) : heap'[a] = heap[a]]_vars

C20_Witness ==
    /\ Len(getlog) = 2
    /\ getlog[1].tid = getlog[2].tid /\ getlog[1].puts = getlog[2].puts
    /\ getlog[1].addr # 0 /\ getlog[2].addr # getlog[1].addr
    /\ \E i \in DOMAIN mutations : mutations[i].target = "snapshot"

\* A thread id field counts as set when it holds a non-empty string.
IsSet(v) == v # None /\ v # Str("")

\* C19: a run's thread id is the nested configurable.thread_id when set,
\* otherwise the top-level thread_id when set, otherwise "default" (also
\* when no config is passed); every checkpoint of the run is written under
\* that id and the store holds nothing under any other id.
C19_ThreadId ==
    \A r \in RunIds :
        Started(r) =>
            LET c == run_config[r]
                id == IF c.given /\ IsSet(c.nested) THEN c.nested.s
                      ELSE IF c.given /\ IsSet(c.top) THEN c.top.s
                      ELSE "default"
            IN /\ thread_id[r] = id
               /\ \A i \in DOMAIN putlog : putlog[i].run = r => putlog[i].tid = id
               /\ \A t \in ThreadIds \ {id} : store[t] = 0
               /\ store[id] # 0

C19_Witness ==
    \E r \in RunIds :
        /\ pc[r] = "returned" /\ steps[r] = 4
        /\ run_config[r] = Config(Str(""), Str("t2"))
        /\ thread_id[r] = "t2" /\ store["t2"] # 0

\* One step of a run executed alone on heap h: the node bound to name is
\* called with the working state ws and its result is merged.
StepAlone(h, ws, name) ==
    LET fn == Nodes[name].s
        res == NodeResult(fn, NodeBody(fn, h, ws))
    IN merge(res.heap, ws, res.d)

RECURSIVE AloneHeap(_, _, _, _)
AloneHeap(h, ws, cur, n) ==
    IF n = 0 \/ cur = END THEN h
    ELSE AloneHeap(StepAlone(h, ws, cur), ws, successor(Edges, cur), n - 1)

\* The working state of run r after n steps, had the run executed alone from
\* the state its caller passed.
AloneContent(r, n) ==
    LET c == deepcopy(heap, caller_state[r])
    IN Content(AloneHeap(c.heap, c.addr, graph.entry_point, n), Ref(c.addr))

\* The same while the node of step n + 1 is suspended.
AloneAwaiting(r, n) ==
    LET c == deepcopy(heap, caller_state[r])
        h == AloneHeap(c.heap, c.addr, graph.entry_point, n)
    IN Content(NodeBody(node[r], h, c.addr), Ref(c.addr))

\* No other started run uses the thread id of run r.
OwnThread(r) ==
    \A q \in RunIds \ {r} : Started(q) => thread_id[q] # thread_id[r]

\* C17: runs of one compiled graph under different thread ids, interleaved
\* at node suspension points, do not interfere: the working state, the puts,
\* the final state and the stored checkpoint of each run are those of the run
\* executed alone, and a put under one id leaves the other id's snapshot as
\* it was.
C17_NoInterference ==
    \A r \in RunIds :
        (Started(r) /\ OwnThread(r)) =>
            /\ pc[r] = "await" => WorkingContent(r) = AloneAwaiting(r, steps[r])
            /\ pc[r] # "await" => WorkingContent(r) = AloneContent(r, steps[r])
            /\ pc[r] = "returned" =>
                  /\ visited[r] = Path(graph.entry_point, MaxSteps)
                  /\ WorkingContent(r) = AloneContent(r, MaxSteps)
            /\ Len(PutsOf(r)) = steps[r] + 1
            /\ \A k \in DOMAIN PutsOf(r) :
                  PutsOf(r)[k].content = AloneContent(r, k - 1)
            /\ store[thread_id[r]] # 0
            /\ StoreContent(thread_id[r]) = AloneContent(r, steps[r])

C17_Witness ==
    /\ thread_id["r1"] = "default" /\ thread_id["r2"] = "t1"
    /\ pc["r1"] = "await" /\ steps["r1"] = 1
    /\ pc["r2"] = "returned" /\ steps["r2"] = 2
    /\ putlog[Len(putlog)].run = "r2" /\ putlog[Len(putlog) - 1].run = "r1"
    /\ StoreContent("default") # StoreContent("t1")

\* C18: when two runs share a thread id and their puts interleave, the
\* snapshot under that id is at every moment a complete working state that
\* one of the runs put, the most recent put, never a mixture of the two.
C18_LastPutWins ==
    \A tid \in ThreadIds :
        PutsUnder(tid) # <<>> =>
            LET e == PutsUnder(tid)[Len(PutsUnder(tid))]
            IN /\ store[tid] # 0
               /\ StoreContent(tid) = e.content
               /\ e.content = AloneContent(e.run, Len(PutsOf(e.run)) - 1)

C18_Witness ==
    /\ thread_id["r1"] = "default" /\ thread_id["r2"] = "default"
    /\ Content(heap, Ref(caller_state["r1"])) # Content(heap, Ref(caller_state["r2"]))
    /\ steps["r1"] = 2 /\ pc["r2"] = "await" /\ steps["r2"] = 1
    /\ putlog[Len(putlog)].run = "r2" /\ putlog[Len(putlog) - 1].run = "r1"
    /\ StoreContent("default") # WorkingContent("r1")

\* The status in the checkpoint run r wrote after its k-th step.
StatusAfter(r, k) == PutsOf(r)[k + 1].content.d["status"].s

\* The steps of run r whose node returned status "error".
ErrorSteps(r) == {k \in 1..steps[r] : StatusAfter(r, k) = "error"}

\* C11: the executor does not interpret status: the nodes a run has visited,
\* and the name it goes to next, are those of the chain the entry point and
\* the edge map define, whether or not a node returned status "error"; a run
\* that returns has invoked every node of the chain, those after a failing
\* node included.
C11_StatusIgnored ==
    \A r \in RunIds :
        Started(r) =>
            /\ IsPrefix(visited[r], Path(graph.entry_point, MaxSteps))
            /\ pc[r] = "loop" =>
                  current[r] = PathEnd(graph.entry_point, steps[r])
            /\ pc[r] = "returned" =>
                  visited[r] = Path(graph.entry_point, MaxSteps)

C11_Witness ==
    \E r \in RunIds :
        /\ pc[r] = "returned" /\ visited[r] = Pipeline
        /\ 2 \in ErrorSteps(r) /\ 1 \notin ErrorSteps(r)

\* A state content that carries an error field.
HasError(c) == "error" \in DOMAIN c.d

\* C12 (as claimed): a run of the linear pipeline, started from a state
\* without an error field, returns a final state that tells failure from
\* success: when some node returned status "error" the final state has
\* status "error" and that node's error message, and when none did it has a
\* success status and no error field.
C12_AsClaimed ==
    \A r \in RunIds :
        (pc[r] = "returned" /\ ~HasError(InitialContent(r))) =>
            IF ErrorSteps(r) # {}
            THEN /\ WorkingContent(r).d["status"].s = "error"
                 /\ HasError(WorkingContent(r))
                 /\ \E k \in ErrorSteps(r) :
                       WorkingContent(r).d["error"]
                           = PutsOf(r)[k + 1].content.d["error"]
            ELSE /\ WorkingContent(r).d["status"].s \in {"pr_ready", "pr_created"}
                 /\ ~HasError(WorkingContent(r))

\* C13 (as claimed): when a run starts from a state that carries an error
\* field and load-context succeeds, the checkpoint of that step, and the
\* working state after it, have status "context_loaded" and no error field.
C13_AsClaimed ==
    \A r \in RunIds :
        (Started(r) /\ HasError(InitialContent(r)) /\ steps[r] >= 1) =>
            /\ PutsOf(r)[2].content.d["status"].s = "context_loaded"
            /\ ~HasError(PutsOf(r)[2].content)
            /\ (steps[r] = 1 /\ pc[r] = "loop") =>
                  /\ WorkingContent(r).d["status"].s = "context_loaded"
                  /\ ~HasError(WorkingContent(r))

\* C14: a node's business-logic failure (no target_files, a file that cannot
\* be opened or read, a plan or diff capability that raises) never leaves the
\* run as an exception: the node returns status "error" with the message,
\* the failure is merged and checkpointed like any result, and the run goes
\* on along its edges to END. The only exception that leaves a run of these
\* nodes is that of loading the settings.
C14_FailuresReturned ==
    \A r \in RunIds :
        Started(r) =>
            /\ pc[r] = "raised" => pending[r].error = SettingsError
            /\ pending[r].phase = "failed" => pc[r] = "await"
            /\ (pending[r].phase = "done" /\ pending[r].error # "") =>
                  /\ pc[r] \in {"loop", "returned"}
                  /\ pending[r].result.d["status"] = CStr("error")
                  /\ pending[r].result.d["error"] = CStr(pending[r].error)
                  /\ PutsOf(r)[steps[r] + 1].content = pending[r].result
                  /\ pc[r] = "loop" =>
                        current[r] = END \/ current[r] \in DOMAIN Nodes
            /\ pc[r] = "returned" =>
                  /\ current[r] = END
                  /\ steps[r] = Len(Path(graph.entry_point, MaxSteps))

C14_Witness ==
    \E r \in RunIds :
        /\ pc[r] = "returned" /\ ErrorSteps(r) = {2, 3}
        /\ PutsOf(r)[3].content.d["error"]
              = CStr("Failed to generate plan: API Error")
        /\ PutsOf(r)[4].content.d["error"]
              = CStr("Error reading file b.py: Permission denied")

\* Run r's latest node call was of fn and has returned.
Returned(r, fn) == node[r] = fn /\ pending[r].phase = "done"

\* The paths in target_files of a state content (none when absent or None).
TargetFiles(c) ==
    IF "target_files" \in DOMAIN c.d /\ c.d["target_files"].t = "list"
    THEN [i \in DOMAIN c.d["target_files"].l |-> c.d["target_files"].l[i].s]
    ELSE <<>>

\* The files opened since run r's latest node call.
OpenedSince(r) == SubSeq(reads, pending[r].reads0 + 1, Len(reads))

\* The returned state differs from the input state in status and error only.
OnlyStatusAndError(in, res) ==
    /\ DOMAIN res.d = DOMAIN in.d \cup {"status", "error"}
    /\ \A k \in DOMAIN in.d \ {"status", "error"} : res.d[k] = in.d[k]

\* C15: the execute node, given a state whose target_files is absent or
\* empty, returns status "error" with the "No target_files specified"
\* message, having opened no file and not called the diff capability; given
\* target files of which the first that cannot be opened is missing, it
\* returns status "error" with "File not found: <that file>", having opened
\* the files up to that one and no later one, not called the diff capability
\* and set no diff. In both cases every other field of the input state is in
\* the returned state unchanged.
C15_ExecuteFailsFast ==
    \A r \in RunIds :
        Returned(r, "nodes.execute_issue") =>
            LET in == pending[r].input
                res == pending[r].result
                files == TargetFiles(in)
                bad == {i \in DOMAIN files : pending[r].fs[files[i]] # "ok"}
            IN /\ files = <<>> =>
                     /\ res.d["status"] = CStr("error")
                     /\ res.d["error"] = CStr(NoTargetFiles)
                     /\ OpenedSince(r) = <<>>
                     /\ diff_calls = pending[r].diffs0
                     /\ OnlyStatusAndError(in, res)
               /\ \A i \in bad :
                     ((\A j \in bad : i <= j)
                         /\ pending[r].fs[files[i]] = "missing") =>
                         /\ res.d["status"] = CStr("error")
                         /\ res.d["error"] = CStr("File not found: " \o files[i])
                         /\ OpenedSince(r) = SubSeq(files, 1, i)
                         /\ diff_calls = pending[r].diffs0
                         /\ OnlyStatusAndError(in, res)

C15_Witness ==
    \E r \in RunIds :
        /\ Returned(r, "nodes.execute_issue")
        /\ TargetFiles(pending[r].input) = <<"a.py", "b.py">>
        /\ pending[r].fs["a.py"] = "missing" /\ pending[r].fs["b.py"] = "ok"
        /\ OpenedSince(r) = <<"a.py">>
        /\ pending[r].result.d["issue_title"] = CStr("Fix it")
        /\ "diff" \notin DOMAIN pending[r].result.d

PlanFields ==
    {"definition_of_done", "steps", "target_files", "estimated_complexity"}

\* C16: the plan node calls the plan capability exactly once; when the
\* capability returns, the node returns status "planned" and a plan of the
\* four fields, every other field of its input unchanged; when the capability
\* raises, the node returns status "error" and an error message that carries
\* the cause, and sets no plan.
C16_PlanOnce ==
    \A r \in RunIds :
        /\ (node[r] = "nodes.plan_issue" /\ pending[r].phase = "plan_llm") =>
              plan_calls = pending[r].plans0 + 1
        /\ Returned(r, "nodes.plan_issue") =>
              LET in == pending[r].input
                  res == pending[r].result
              IN /\ plan_calls = pending[r].plans0 + 1
                 /\ pending[r].cause = "" =>
                       /\ res.d["status"] = CStr("planned")
                       /\ DOMAIN res.d = DOMAIN in.d \cup {"status", "plan"}
                       /\ res.d["plan"].t = "dict"
                       /\ DOMAIN res.d["plan"].d = PlanFields
                       /\ \A k \in DOMAIN in.d \ {"status", "plan"} :
                             res.d[k] = in.d[k]
                 /\ pending[r].cause # "" =>
                       /\ res.d["status"] = CStr("error")
                       /\ res.d["error"] =
                             CStr("Failed to generate plan: " \o pending[r].cause)
                       /\ "plan" \notin DOMAIN res.d
                       /\ OnlyStatusAndError(in, res)

C16_Witness ==
    \E r \in RunIds :
        /\ Returned(r, "nodes.plan_issue")
        /\ pending[r].cause = "timeout" /\ plan_calls = 1
        /\ pending[r].result.d["status"] = CStr("error")
        /\ HasError(pending[r].input)

\* The builder's node map and edge map.
BuilderNodes == heap[builder.nodes].d
BuilderEdges == heap[builder.edges].d

\* Map m2 is map m1 with key bound to v and every other binding as it was.
Rebound(m1, m2, key, v) ==
    /\ DOMAIN m2 = DOMAIN m1 \cup {key}
    /\ m2[key] = v
    /\ \A k \in DOMAIN m1 \ {key} : m2[k] = m1[k]

\* C21: registration is last-write-wins and never fails: every add_node call
\* leaves the node map binding its name to its function, whatever was bound
\* before, and every other name and the edge map as they were; every add_edge
\* call does the same for its source in the edge map, which being a map holds
\* at most one destination per source; neither call raises.
C21_LastWriteWins ==
    [][/\ \A n \in Names, f \in NodeFns :
             AddNode(n, f) =>
                 /\ Rebound(BuilderNodes, BuilderNodes', n, Str(f))
                 /\ BuilderEdges' = BuilderEdges
                 /\ builder' = builder /\ compile_result' = compile_result
       /\ \A n \in Names, d \in Names \cup {END} :
             AddEdge(n, d) =>
                 /\ Rebound(BuilderEdges, BuilderEdges', n, Str(d))
                 /\ BuilderNodes' = BuilderNodes
                 /\ builder' = builder /\ compile_result' = compile_result]_vars

\* Four registrations, two bindings: one name was registered twice and one
\* source was given two destinations.
C21_Witness ==
    /\ builder.live /\ calls = 4 /\ entry_calls = 0
    /\ DOMAIN BuilderNodes = {"load_context"}
    /\ BuilderNodes["load_context"] = Str("plan_issue")
    /\ DOMAIN BuilderEdges = {"load_context"}
    /\ BuilderEdges["load_context"] = Str(END)

\* C22: when the node that just ran has no outgoing edge in the edge map,
\* the run takes END as its successor: that node's checkpoint is written, it
\* is the last node invoked, and the run returns the working state, which is
\* what the store holds.
C22_NoEdgeIsEnd ==
    \A r \in RunIds :
        Started(r) =>
            \A k \in 1..steps[r] :
                visited[r][k] \notin DOMAIN Edges =>
                    /\ k = steps[r] /\ Len(visited[r]) = k
                    /\ current[r] = END
                    /\ pc[r] \in {"loop", "returned"}
                    /\ Len(PutsOf(r)) = k + 1
                    /\ PutsOf(r)[k + 1].content = WorkingContent(r)

C22_Witness ==
    \E r \in RunIds :
        /\ pc[r] = "returned" /\ steps[r] = 2
        /\ visited[r][1] \in DOMAIN Edges
        /\ visited[r][2] \notin DOMAIN Edges
        /\ StoreContent(thread_id[r]) = WorkingContent(r)

\* C23: when a node returns None or an empty update the working state is
\* left as it was, and the step counts all the same: its checkpoint is
\* written, equal to the one before it, and the loop goes on to the node's
\* successor.
C23_EmptyUpdate ==
    \A r \in RunIds :
        Started(r) =>
            /\ Len(PutsOf(r)) = steps[r] + 1
            /\ pc[r] = "loop" =>
                  current[r] = PathEnd(graph.entry_point, steps[r])
            /\ (pc[r] = "await" /\ node[r] \in QuietFns) =>
                  WorkingContent(r) = PutsOf(r)[steps[r] + 1].content
            /\ \A k \in 1..steps[r] :
                  FnAt(r, k) \in QuietFns =>
                      /\ Len(PutsOf(r)) >= k + 1
                      /\ PutsOf(r)[k + 1].content = PutsOf(r)[k].content
                      /\ (k = steps[r] /\ pc[r] # "await") =>
                            WorkingContent(r) = PutsOf(r)[k].content

C23_Witness ==
    \E r \in RunIds :
        /\ pc[r] = "returned" /\ steps[r] = 3
        /\ FnAt(r, 1) = "returns_none" /\ FnAt(r, 3) = "returns_empty"
        /\ PutsOf(r)[2].content # PutsOf(r)[3].content
        /\ PutsOf(r)[4].content = PutsOf(r)[3].content

\* C24: a run never modifies the record its caller passed: the working state
\* shares no object with it, so at every moment of the run, and after it has
\* returned or raised, the caller's record has the content it had when run
\* was called (that of the initial checkpoint), its trace included, although
\* the nodes append to the trace of the state they are given.
C24_CallerStateUntouched ==
    \A r \in RunIds :
        Started(r) =>
            /\ InitialContent(r) = PutsOf(r)[1].content
            /\ Reach(heap, caller_state[r]) \cap Reach(heap, working_state[r])
                  = {}

C24_Witness ==
    \E r \in RunIds :
        /\ pc[r] = "raised" /\ steps[r] = 1
        /\ InitialContent(r) = NewContent
        /\ Len(WorkingContent(r).d["trace"].l) = 1

\* The content get(tid) returns now.
GetContent(tid) ==
    LET g == get(heap, store, tid)
    IN IF g.addr = 0 THEN CNone ELSE Content(g.heap, Ref(g.addr))

\* C25: the store keeps one snapshot per thread id, the most recent: after
\* any sequence of puts get(id) returns the content of the last put for id
\* (None when there was none); hence once a run has returned and no other
\* run has put under its thread id since, get(thread_id) has the content of
\* the final state the run returned.
C25_MostRecentOnly ==
    /\ \A tid \in ThreadIds :
          IF PutsUnder(tid) = <<>> THEN GetContent(tid) = CNone
          ELSE GetContent(tid) = LastPut(tid)
    /\ \A r \in RunIds :
          (/\ pc[r] = "returned"
           /\ PutsUnder(thread_id[r])[Len(PutsUnder(thread_id[r]))].run = r)
              => GetContent(thread_id[r]) = WorkingContent(r)

C25_Witness ==
    /\ pc["r1"] = "returned" /\ thread_id["r2"] = thread_id["r1"]
    /\ steps["r2"] = 1 /\ putlog[Len(putlog)].run = "r1"
    /\ Len(PutsUnder(thread_id["r1"])) = 5
    /\ GetContent("default") = WorkingContent("r1")
    /\ GetContent("default") # WorkingContent("r2")

\* The names in the trace of a state content, none when it has no trace.
TraceOf(c) ==
    IF "trace" \in DOMAIN c.d
    THEN [i \in 1..Len(c.d["trace"].l) |-> c.d["trace"].l[i].s]
    ELSE <<>>

\* The functions of the first k steps of run r, in execution order.
CompletedFns(r, k) == [i \in 1..k |-> FnAt(r, i)]

\* C26: at every moment of a run, while a node is suspended after it has
\* appended its name to the working state's trace and after the run has
\* raised included, get(thread_id) returns the state as of the last
\* completed step: its trace is the caller's trace followed by the names of
\* the completed nodes in execution order (for the built pipeline a prefix
\* of the four names), and each checkpoint's trace is the previous one's
\* plus the name of the node that just completed.
C26_SnapshotTrace ==
    \A r \in RunIds :
        Started(r) =>
            /\ GetContent(thread_id[r]) = PutsOf(r)[steps[r] + 1].content
            /\ TraceOf(GetContent(thread_id[r]))
                  = TraceOf(InitialContent(r)) \o CompletedFns(r, steps[r])
            /\ \A k \in 1..steps[r] :
                  TraceOf(PutsOf(r)[k + 1].content)
                      = Append(TraceOf(PutsOf(r)[k].content), FnAt(r, k))
            /\ Built => CompletedFns(r, steps[r]) = SubSeq(Pipeline, 1, steps[r])

C26_Witness ==
    \E r \in RunIds :
        /\ Built /\ pc[r] = "await" /\ steps[r] = 2
        /\ TraceOf(WorkingContent(r))
              = <<"load_context", "plan_issue", "execute_issue">>
        /\ TraceOf(GetContent(thread_id[r])) = <<"load_context", "plan_issue">>

\* The chain of edges from the entry point runs over registered nodes only
\* and reaches END.
ChainEnds == graph.made /\ PathEnd(graph.entry_point, MaxSteps) = END

\* The chain of edges from the entry point comes back to a node it passed.
ChainCycles ==
    /\ graph.made
    /\ LET p == Path(graph.entry_point, MaxSteps)
       IN \E i, j \in 1..Len(p) : i < j /\ p[i] = p[j]

\* C27: a run returns exactly when the chain of edges from the entry point
\* reaches END (an edge to END, or a node with no outgoing edge): when the
\* chain ends, a started run eventually returns, and it has then invoked
\* each node of the chain once, in order; when the chain has a cycle the run
\* never returns nor fails: it goes on invoking nodes for as many steps as
\* are explored.
C27_Termination ==
    /\ [](\A r \in Solo :
              pc[r] = "returned" =>
                  /\ ChainEnds
                  /\ visited[r] = Path(graph.entry_point, MaxSteps)
                  /\ steps[r] = Len(visited[r])
                  /\ \A i, j \in 1..Len(visited[r]) :
                        visited[r][i] = visited[r][j] => i = j)
    /\ \A r \in Solo : (Started(r) /\ ChainEnds) ~> (pc[r] = "returned")
    /\ [](\A r \in Solo :
              (Started(r) /\ ChainCycles) => pc[r] \in {"loop", "await"})
    /\ \A r \in Solo :
          (Started(r) /\ ChainCycles)
              ~> (/\ pc[r] = "loop" /\ steps[r] = MaxSteps
                  /\ current[r] \in DOMAIN Nodes)

C27_Witness ==
    \E r \in Solo :
        /\ ChainCycles /\ pc[r] = "loop" /\ steps[r] = MaxSteps
        /\ visited[r][3] = visited[r][1] /\ current[r] \in DOMAIN Nodes

====
